---- MODULE Spec2Model ----
(***************************************************************************)
(* A model of the beamburst2 ray tracer (src/src/beamburst2.cpp): the      *)
(* vector algebra, Sphere::hit and Triangle::hit, the Scene container and  *)
(* the shading loop of ray_trace.                                          *)
(*                                                                         *)
(* Numbers.  The program computes in IEEE `float`.  The model computes in  *)
(* fixed point: a geometric quantity x is the integer round(x * Scale), a  *)
(* shading quantity (a material coefficient, an intensity, a colour        *)
(* channel) is the integer round(x * CScale).  Every multiplication,       *)
(* division and square root rounds its result to the nearest grid value,   *)
(* as every float operation rounds to the nearest float.  The grid has no  *)
(* infinities, NaNs or subnormals, so std::isnormal(x) is x # 0 and        *)
(* std::signbit(x) is x < 0.                                               *)
(***************************************************************************)
EXTENDS Integers, Sequences, FiniteSets, TLC

\* Resolution of geometric quantities (1/32 of a scene unit).
Scale == 32
\* Resolution of shading quantities (1/10000).
CScale == 10000

Abs(x) == IF x < 0 THEN -x ELSE x

\* a / b rounded to the nearest integer, ties away from zero (b # 0).
RDiv(a, b) ==
    LET q == (Abs(a) + (Abs(b) \div 2)) \div Abs(b)
    IN  IF (a < 0) = (b < 0) THEN q ELSE -q

\* x * y / d rounded to the nearest integer for x, y >= 0 and d > 0, computed
\* so that no intermediate product leaves the range of 32-bit integers.
UMulDiv(x, y, d) == ((x \div d) * y) + ((((x % d) * y) + (d \div 2)) \div d)

\* a * b / c rounded to the nearest integer, ties away from zero (c # 0).
MulDiv(a, b, c) ==
    IF ((a < 0) = (b < 0)) = (c > 0)
        THEN UMulDiv(Abs(a), Abs(b), Abs(c))
        ELSE -UMulDiv(Abs(a), Abs(b), Abs(c))

\* float * float and float / float on geometric quantities.
FMul(a, b) == MulDiv(a, b, Scale)
FDiv(a, b) == MulDiv(a, Scale, b)

\* float * float on shading quantities.
CMul(a, b) == RDiv(a * b, CScale)

\* A geometric quantity read as a shading quantity (same real value).
ToShade(x) == RDiv(x * CScale, Scale)

RECURSIVE SqrtSearch(_, _, _)
\* The largest r in lo..hi with r * r <= n (lo * lo <= n < (hi+1) * (hi+1)).
SqrtSearch(n, lo, hi) ==
    IF lo >= hi THEN lo
    ELSE LET mid == (lo + hi + 1) \div 2
         IN  IF mid * mid <= n THEN SqrtSearch(n, mid, hi)
                               ELSE SqrtSearch(n, lo, mid - 1)

\* The integer nearest to the square root of n >= 0.
ISqrt(n) ==
    LET r == SqrtSearch(n, 0, 46340)
    IN  IF n - r * r > r THEN r + 1 ELSE r

\* std::sqrt on a geometric quantity.
FSqrt(a) == ISqrt(a * Scale)

isnormal(x) == x # 0
signbit(x) == x < 0

\* float constexpr eps = epsilon * 250: the smallest positive grid value.
eps == 1
\* std::numeric_limits<float>::max(), the initial Ray::t.
FLT_MAX == 1000000000

(***************************************************************************)
(* vec3 and its operators                                                  *)
(***************************************************************************)
Zero3 == <<0, 0, 0>>

dot(lhs, rhs) == FMul(lhs[1], rhs[1]) + FMul(lhs[2], rhs[2]) + FMul(lhs[3], rhs[3])

normalize(v) ==
    LET length == FSqrt(dot(v, v))
    IN  IF length = 0 THEN Zero3
        ELSE <<FDiv(v[1], length), FDiv(v[2], length), FDiv(v[3], length)>>

cross(lhs, rhs) ==
    << FMul(lhs[2], rhs[3]) - FMul(lhs[3], rhs[2]),
       FMul(lhs[3], rhs[1]) - FMul(lhs[1], rhs[3]),
       FMul(lhs[1], rhs[2]) - FMul(lhs[2], rhs[1]) >>

\* float * vec3 (operator* of lines 50 and 59).
scale3(f, v) == <<FMul(f, v[1]), FMul(f, v[2]), FMul(f, v[3])>>
sub3(lhs, rhs) == <<lhs[1] - rhs[1], lhs[2] - rhs[2], lhs[3] - rhs[3]>>
add3(lhs, rhs) == <<lhs[1] + rhs[1], lhs[2] + rhs[2], lhs[3] + rhs[3]>>

\* The same operators on colours.
cscale3(f, v) == <<CMul(f, v[1]), CMul(f, v[2]), CMul(f, v[3])>>
cmul3(lhs, rhs) == <<CMul(lhs[1], rhs[1]), CMul(lhs[2], rhs[2]), CMul(lhs[3], rhs[3])>>

\* A point or direction given in whole scene units.
P(x, y, z) == <<x * Scale, y * Scale, z * Scale>>

(***************************************************************************)
(* Ray                                                                     *)
(***************************************************************************)
Ray(origin, direction) == [origin |-> origin, direction |-> direction, t |-> FLT_MAX]

Ray_hit_position(ray) == add3(ray.origin, scale3(ray.t, ray.direction))

(***************************************************************************)
(* Sphere                                                                  *)
(***************************************************************************)
Sphere(position, radius, mat) ==
    [kind |-> "sphere", position |-> position, radius |-> radius, mat |-> mat]

\* Sphere::hit without the lower guard `> eps` on the roots.
Sphere_hit_unguarded(s, ray) ==
    LET h  == sub3(s.position, ray.origin)
        m  == dot(h, ray.direction)
        g  == FMul(m, m) - dot(h, h) + FMul(s.radius, s.radius)
        t0 == m - FSqrt(g)
        t1 == m + FSqrt(g)
    IN  IF g < 0 THEN [ret |-> FALSE, t |-> ray.t]
        ELSE IF t0 < ray.t THEN [ret |-> TRUE, t |-> t0]
        ELSE IF t1 < ray.t THEN [ret |-> TRUE, t |-> t1]
        ELSE [ret |-> FALSE, t |-> ray.t]

\* Sphere::hit: the value returned and the ray's t after the call.
Sphere_hit(s, ray) ==
    LET h  == sub3(s.position, ray.origin)
        m  == dot(h, ray.direction)
        g  == FMul(m, m) - dot(h, h) + FMul(s.radius, s.radius)
        t0 == m - FSqrt(g)
        t1 == m + FSqrt(g)
    IN  IF g < 0 THEN [ret |-> FALSE, t |-> ray.t]
        ELSE IF t0 > eps /\ t0 < ray.t THEN [ret |-> TRUE, t |-> t0]
        ELSE IF t1 > eps /\ t1 < ray.t THEN [ret |-> TRUE, t |-> t1]
        ELSE [ret |-> FALSE, t |-> ray.t]

Sphere_normal(s, hit_position) == normalize(sub3(hit_position, s.position))

(***************************************************************************)
(* Triangle                                                                *)
(***************************************************************************)
Triangle(positions, mat) == [kind |-> "triangle", positions |-> positions, mat |-> mat]

Tri_e1(tr) == sub3(tr.positions[2], tr.positions[1])
Tri_e2(tr) == sub3(tr.positions[3], tr.positions[1])
Tri_n(tr) == cross(Tri_e1(tr), Tri_e2(tr))
Tri_denominator(tr, ray) == dot(Tri_n(tr), ray.direction)

\* `time` of line 288 (read only where the denominator is normal).
Tri_time(tr, ray) ==
    LET D == -dot(tr.positions[1], Tri_n(tr))
    IN  FDiv(-(D + dot(Tri_n(tr), ray.origin)), Tri_denominator(tr, ray))

Tri_det(tr) ==
    LET d11 == dot(Tri_e1(tr), Tri_e1(tr))
        d12 == dot(Tri_e1(tr), Tri_e2(tr))
        d22 == dot(Tri_e2(tr), Tri_e2(tr))
    IN  FMul(d11, d22) - FMul(d12, d12)

\* beta and gamma of lines 308-309 (read only where det is normal).
Tri_bary(tr, ray) ==
    LET e1  == Tri_e1(tr)
        e2  == Tri_e2(tr)
        time == Tri_time(tr, ray)
        solution_position == add3(ray.origin, scale3(time, ray.direction))
        ep  == sub3(solution_position, tr.positions[1])
        d11 == dot(e1, e1)
        d12 == dot(e1, e2)
        d22 == dot(e2, e2)
        d1p == dot(e1, ep)
        d2p == dot(e2, ep)
        det == Tri_det(tr)
    IN  [beta  |-> FDiv(FMul(d22, d1p) - FMul(d12, d2p), det),
         gamma |-> FDiv(FMul(d11, d2p) - FMul(d12, d1p), det)]

One == Scale

\* The containment test with the edge beta + gamma = 1 left out.
Tri_outside_exclusive(beta, gamma) ==
    \/ beta < 0
    \/ beta > One
    \/ gamma < 0
    \/ gamma > One
    \/ beta + gamma >= One
    \/ beta + gamma < 0

\* The containment test of line 311: TRUE when the hit is rejected.
Tri_outside(beta, gamma) ==
    \/ beta < 0
    \/ beta > One
    \/ gamma < 0
    \/ gamma > One
    \/ beta + gamma > One
    \/ beta + gamma < 0

\* Triangle::hit writing ray.t only once the hit is accepted.
Triangle_hit_restoring(tr, ray) ==
    IF ~isnormal(Tri_denominator(tr, ray)) THEN [ret |-> FALSE, t |-> ray.t]
    ELSE LET time == Tri_time(tr, ray)
         IN  IF signbit(time) THEN [ret |-> FALSE, t |-> ray.t]
             ELSE IF ~(time > eps /\ time < ray.t) THEN [ret |-> FALSE, t |-> ray.t]
             ELSE IF ~isnormal(Tri_det(tr)) THEN [ret |-> FALSE, t |-> ray.t]
             ELSE LET b == Tri_bary(tr, ray)
                  IN  IF Tri_outside(b.beta, b.gamma)
                          THEN [ret |-> FALSE, t |-> ray.t]
                          ELSE [ret |-> TRUE, t |-> time]

\* Triangle::hit: the value returned and the ray's t after the call.
Triangle_hit(tr, ray) ==
    IF ~isnormal(Tri_denominator(tr, ray)) THEN [ret |-> FALSE, t |-> ray.t]
    ELSE LET time == Tri_time(tr, ray)
         IN  IF signbit(time) THEN [ret |-> FALSE, t |-> ray.t]
             ELSE IF ~(time > eps /\ time < ray.t) THEN [ret |-> FALSE, t |-> ray.t]
             ELSE IF ~isnormal(Tri_det(tr)) THEN [ret |-> FALSE, t |-> time]
             ELSE LET b == Tri_bary(tr, ray)
                  IN  IF Tri_outside(b.beta, b.gamma)
                          THEN [ret |-> FALSE, t |-> time]
                          ELSE [ret |-> TRUE, t |-> time]

Triangle_normal(tr, hit_position) ==
    normalize(cross(sub3(hit_position, tr.positions[1]),
                    sub3(tr.positions[3], tr.positions[1])))

(***************************************************************************)
(* Object: the virtual dispatch of hit, normal and material                *)
(***************************************************************************)
Object_hit(o, ray) ==
    IF o.kind = "sphere" THEN Sphere_hit(o, ray) ELSE Triangle_hit(o, ray)

Object_normal(o, hit_position) ==
    IF o.kind = "sphere" THEN Sphere_normal(o, hit_position)
                         ELSE Triangle_normal(o, hit_position)

Object_material(o) == o.mat

(***************************************************************************)
(* Inputs: the materials, primitives and lights a caller builds scenes     *)
(* from (main, lines 444-464), at the scale of the model's image.          *)
(***************************************************************************)
Material(color, ambient, diffuse, reflect) ==
    [color |-> color, ambient |-> ambient, diffuse |-> diffuse, reflect |-> reflect]

mirror == Material(<<9000, 10000, 9000>>, 100, 9900, 9900)
matte  == Material(<<10000, 8000, 6000>>, 3000, 7000, 2000)
\* The material of the spec's end-to-end property: no reflection.
flat   == Material(<<10000, 8000, 6000>>, 3000, 7000, 0)

\* Two spheres on the camera axis, one in front of the camera plane and one
\* behind it, so that they face each other; each in either material.
SpherePool ==
    { Sphere(c, 2 * Scale, m) : c \in {P(0, 0, 0), P(0, 0, -1010)}, m \in {mirror, matte} }

\* A triangle shaped like main's, in front of the first sphere: it covers the
\* half x >= y of the image, its edges passing through pixel centres.  And a
\* sliver so small that its determinant underflows to zero while the normal
\* of its plane does not.
TrianglePool ==
    { Triangle(<<P(-1, -1, -3), P(1, -1, -3), P(1, 1, -3)>>, flat),
      Triangle(<<P(0, 0, -4), add3(P(0, 0, -4), <<4, 0, 0>>),
                 add3(P(0, 0, -4), <<0, 4, 0>>)>>, matte) }

Light(position, color) == [position |-> position, color |-> color]

LightPool ==
    { Light(P(0, 0, -500), <<10000, 10000, 0>>),
      Light(P(60, 0, -40), <<0, 10000, 0>>) }

\* Bounds of the model.
MaxObjects == 3
MaxLights == 2
Width == 3
Height == 3
MaxDepth == 4

nullptr == 0

\* The test of line 427 written as `intensity <= 0`.
Negligible_zero(intensity) == intensity <= 0

\* intensity < 0.01 (line 427).
Negligible(intensity) == intensity < CScale \div 100

\* The loop test of line 386 written as `depth <= MaxDepth`.
LoopCond_inclusive(d) == d <= MaxDepth

\* depth < MaxDepth (line 386).
LoopCond(d) == d < MaxDepth

(***************************************************************************)
(* State                                                                   *)
(***************************************************************************)
VARIABLES
    \* Scene
    lights, sphere_storage, triangle_storage, objects,
    heap,           \* the primitives allocated by make_unique, by address
    \* ray_trace
    pc, pixel, depth, color, intensity, ray, hit_object,
    it,             \* position of the range-for over get_objects()
    hit_position, hit_normal,
    lt,             \* position of the range-for over get_lights()
    light_direction, diffuse, ray_to_light, in_shadow,
    \* history
    call,           \* the last hit call: object, ray.t before, result
    pass,           \* the hit calls of the pass in progress
    terms,          \* the terms added to color by this ray_trace call
    exit            \* the return taken by ray_trace

scene_vars == <<lights, sphere_storage, triangle_storage, objects, heap>>
trace_vars == <<pc, pixel, depth, color, intensity, ray, hit_object, it,
                hit_position, hit_normal, lt, light_direction, diffuse,
                ray_to_light, in_shadow>>
hist_vars == <<call, pass, terms, exit>>
vars == <<scene_vars, trace_vars, hist_vars>>

NoRay == Ray(Zero3, Zero3)
NoCall == [where |-> "none", obj |-> nullptr, before |-> NoRay, ret |-> FALSE,
           after |-> NoRay]

Init ==
    /\ lights = <<>>
    /\ sphere_storage = <<>>
    /\ triangle_storage = <<>>
    /\ objects = <<>>
    /\ heap = <<>>
    /\ pc = "build"
    /\ pixel = <<0, 0>>
    /\ depth = 0
    /\ color = Zero3
    /\ intensity = CScale
    /\ ray = NoRay
    /\ hit_object = nullptr
    /\ it = 1
    /\ hit_position = Zero3
    /\ hit_normal = Zero3
    /\ lt = 1
    /\ light_direction = Zero3
    /\ diffuse = 0
    /\ ray_to_light = NoRay
    /\ in_shadow = FALSE
    /\ call = NoCall
    /\ pass = <<>>
    /\ terms = <<>>
    /\ exit = "none"

(***************************************************************************)
(* Scene                                                                   *)
(***************************************************************************)
Last(s) == s[Len(s)]

\* The vertices of a primitive: a sphere's centre, a triangle's corners.
Geometry(o) == IF o.kind = "sphere" THEN <<o.position>> ELSE o.positions

\* The geometry of the primitives pushed so far (a caller pushes distinct ones).
Pushed == { Geometry(heap[a]) : a \in DOMAIN heap }

\* A slip in push_object(Sphere&&): the first stored pointer, not the last.
Sphere_handle_first(storage) == storage[1]

\* The handle push_object(Sphere&&) appends: the pointer just stored.
Sphere_handle(storage) == Last(storage)

\* The handle push_object(Triangle&&) appends.
Triangle_handle(storage) == Last(storage)

Scene_push_sphere(sphere) ==
    /\ pc = "build"
    /\ Len(objects) < MaxObjects
    /\ Geometry(sphere) \notin Pushed
    /\ LET addr == Len(heap) + 1
           storage == Append(sphere_storage, addr)
       IN  /\ heap' = Append(heap, sphere)
           /\ sphere_storage' = storage
           /\ objects' = Append(objects, Sphere_handle(storage))
    /\ UNCHANGED <<lights, triangle_storage, trace_vars, hist_vars>>

Scene_push_triangle(triangle) ==
    /\ pc = "build"
    /\ Len(objects) < MaxObjects
    /\ Geometry(triangle) \notin Pushed
    /\ LET addr == Len(heap) + 1
           storage == Append(triangle_storage, addr)
       IN  /\ heap' = Append(heap, triangle)
           /\ triangle_storage' = storage
           /\ objects' = Append(objects, Triangle_handle(storage))
    /\ UNCHANGED <<lights, sphere_storage, trace_vars, hist_vars>>

Scene_push_light(light) ==
    /\ pc = "build"
    /\ Len(lights) < MaxLights
    /\ \A n \in DOMAIN lights : lights[n] # light
    /\ lights' = Append(lights, light)
    /\ UNCHANGED <<sphere_storage, triangle_storage, objects, heap, trace_vars, hist_vars>>

PushSphere == \E s \in SpherePool : Scene_push_sphere(s)
PushTriangle == \E t \in TrianglePool : Scene_push_triangle(t)
PushLight == \E li \in LightPool : Scene_push_light(li)

(***************************************************************************)
(* ray_trace                                                               *)
(***************************************************************************)
\* The primary ray of pixel (i, j), lines 379-384.
PrimaryRay(i, j) == Ray(P(i - (Width \div 2), j - (Height \div 2), -1000), P(0, 0, 1))

\* One more call of hit, recorded.
Called(where, obj, before, r) ==
    [where |-> where, obj |-> obj, before |-> before, ret |-> r.ret,
     after |-> [before EXCEPT !.t = r.t]]

\* main calls ray_trace(scene, i, j): lines 377-386.
TraceBegin ==
    /\ pc \in {"build", "done"}
    /\ \E i \in 0..(Width - 1), j \in 0..(Height - 1) :
          /\ pixel' = <<i, j>>
          /\ ray' = PrimaryRay(i, j)
    /\ color' = Zero3
    /\ intensity' = CScale
    /\ depth' = 0
    /\ hit_object' = nullptr
    /\ it' = 1
    /\ hit_position' = Zero3
    /\ hit_normal' = Zero3
    /\ lt' = 1
    /\ light_direction' = Zero3
    /\ diffuse' = 0
    /\ ray_to_light' = NoRay
    /\ in_shadow' = FALSE
    /\ call' = NoCall
    /\ pass' = <<>>
    /\ terms' = <<>>
    /\ IF LoopCond(0) THEN pc' = "nearest" /\ exit' = "none"
                      ELSE pc' = "done" /\ exit' = "depth"
    /\ UNCHANGED scene_vars

\* One turn of the loop of lines 388-392.
NearestHit ==
    /\ pc = "nearest"
    /\ it <= Len(objects)
    /\ LET object == objects[it]
           r == Object_hit(heap[object], ray)
       IN  /\ ray' = [ray EXCEPT !.t = r.t]
           /\ hit_object' = IF r.ret THEN object ELSE hit_object
           /\ call' = Called("nearest", object, ray, r)
           /\ pass' = Append(pass, Called("nearest", object, ray, r))
    /\ it' = it + 1
    /\ UNCHANGED <<scene_vars, pc, pixel, depth, color, intensity, hit_position,
                   hit_normal, lt, light_direction, diffuse, ray_to_light,
                   in_shadow, terms, exit>>

\* The end of the nearest-hit loop and the test of line 393.
NearestEnd ==
    /\ pc = "nearest"
    /\ it > Len(objects)
    /\ IF hit_object = nullptr
          THEN pc' = "done" /\ exit' = "no_hit"
          ELSE pc' = "shade" /\ exit' = exit
    /\ UNCHANGED <<scene_vars, pixel, depth, color, intensity, ray, hit_object, it,
                   hit_position, hit_normal, lt, light_direction, diffuse,
                   ray_to_light, in_shadow, call, pass, terms>>

\* The ambient term of line 404.
Ambient(i, material) == cscale3(CMul(i, material.ambient), material.color)

\* Lines 397-404.
Shade ==
    /\ pc = "shade"
    /\ LET hp == Ray_hit_position(ray)
           n  == Object_normal(heap[hit_object], hp)
           hit_material == Object_material(heap[hit_object])
       IN  /\ hit_normal' = n
           /\ hit_position' = add3(hp, scale3(eps, n))
           /\ color' = add3(color, Ambient(intensity, hit_material))
           /\ terms' = Append(terms, [kind |-> "ambient", weight |-> intensity,
                                      depth |-> depth, light |-> 0])
    /\ lt' = 1
    /\ pc' = "lights"
    /\ UNCHANGED <<scene_vars, pixel, depth, intensity, ray, hit_object, it,
                   light_direction, diffuse, ray_to_light, in_shadow, call, pass, exit>>

\* diffuse <= 0.0 (line 410): the light is skipped.
FacesAway(d) == d <= 0

\* Lines 408-415: the head of the loop over the lights.
LightBegin ==
    /\ pc = "lights"
    /\ lt <= Len(lights)
    /\ LET ld == normalize(sub3(lights[lt].position, hit_position))
           d  == dot(hit_normal, ld)
       IN  /\ light_direction' = ld
           /\ diffuse' = d
           /\ IF FacesAway(d)
                 THEN /\ lt' = lt + 1
                      /\ UNCHANGED <<pc, ray_to_light, in_shadow, it, pass>>
                 ELSE /\ ray_to_light' = Ray(hit_position, ld)
                      /\ in_shadow' = FALSE
                      /\ it' = 1
                      /\ pass' = <<>>
                      /\ pc' = "shadow"
                      /\ lt' = lt
    /\ UNCHANGED <<scene_vars, pixel, depth, color, intensity, ray, hit_object,
                   hit_position, hit_normal, call, terms, exit>>

\* The distance from a shadow ray's origin to the light.
LightDistance(shadow_ray, light) ==
    FSqrt(dot(sub3(light.position, shadow_ray.origin),
              sub3(light.position, shadow_ray.origin)))

\* An occlusion test clipped to the light: only hits nearer than the light count.
Occludes_clipped(r, shadow_ray, light) ==
    r.ret /\ r.t < LightDistance(shadow_ray, light)

\* Whether a hit call's result puts the point in shadow (lines 417-420).
Occludes(r, shadow_ray, light) == r.ret

\* One turn of the loop of lines 416-421.
ShadowHit ==
    /\ pc = "shadow"
    /\ ~in_shadow
    /\ it <= Len(objects)
    /\ LET object == objects[it]
           r == Object_hit(heap[object], ray_to_light)
       IN  /\ ray_to_light' = [ray_to_light EXCEPT !.t = r.t]
           /\ call' = Called("shadow", object, ray_to_light, r)
           /\ pass' = Append(pass, Called("shadow", object, ray_to_light, r))
           /\ IF Occludes(r, ray_to_light, lights[lt])
                 THEN in_shadow' = TRUE /\ it' = it
                 ELSE in_shadow' = FALSE /\ it' = it + 1
    /\ UNCHANGED <<scene_vars, pc, pixel, depth, color, intensity, ray, hit_object,
                   hit_position, hit_normal, lt, light_direction, diffuse, terms, exit>>

\* The diffuse term of line 423.
Diffuse(i, material, d, light) ==
    cmul3(cscale3(CMul(CMul(i, material.diffuse), ToShade(d)), light.color),
          material.color)

\* Lines 422-424 and the step of the loop over the lights.
ShadowEnd ==
    /\ pc = "shadow"
    /\ in_shadow \/ it > Len(objects)
    /\ IF ~in_shadow
          THEN /\ color' = add3(color, Diffuse(intensity, Object_material(heap[hit_object]),
                                               diffuse, lights[lt]))
               /\ terms' = Append(terms, [kind |-> "diffuse", weight |-> intensity,
                                          depth |-> depth, light |-> lt])
          ELSE UNCHANGED <<color, terms>>
    /\ lt' = lt + 1
    /\ pc' = "lights"
    /\ UNCHANGED <<scene_vars, pixel, depth, intensity, ray, hit_object, it,
                   hit_position, hit_normal, light_direction, diffuse, ray_to_light,
                   in_shadow, call, pass, exit>>

\* The mirror direction of line 430.
Reflected(direction, n) ==
    normalize(sub3(direction, scale3(FMul(2 * Scale, dot(direction, n)), n)))

\* Lines 426-431 and the loop's depth++ and test.
Reflect ==
    /\ pc = "lights"
    /\ lt > Len(lights)
    /\ LET i == CMul(intensity, Object_material(heap[hit_object]).reflect)
       IN  /\ intensity' = i
           /\ IF Negligible(i)
                 THEN /\ pc' = "done"
                      /\ exit' = "intensity"
                      /\ UNCHANGED <<ray, depth, hit_object, it, pass>>
                 ELSE /\ ray' = Ray(hit_position, Reflected(ray.direction, hit_normal))
                      /\ depth' = depth + 1
                      /\ hit_object' = nullptr
                      /\ it' = 1
                      /\ pass' = <<>>
                      /\ IF LoopCond(depth + 1)
                            THEN pc' = "nearest" /\ exit' = exit
                            ELSE pc' = "done" /\ exit' = "depth"
    /\ UNCHANGED <<scene_vars, pixel, color, hit_position, hit_normal, lt,
                   light_direction, diffuse, ray_to_light, in_shadow, call, terms>>

TraceStep ==
    \/ NearestHit
    \/ NearestEnd
    \/ Shade
    \/ LightBegin
    \/ ShadowHit
    \/ ShadowEnd
    \/ Reflect

Next ==
    \/ PushSphere
    \/ PushTriangle
    \/ PushLight
    \/ TraceBegin
    \/ NearestHit
    \/ NearestEnd
    \/ Shade
    \/ LightBegin
    \/ ShadowHit
    \/ ShadowEnd
    \/ Reflect

Spec == Init /\ [][Next]_vars

(***************************************************************************)
(* Properties                                                              *)
(***************************************************************************)
Range(s) == { s[n] : n \in DOMAIN s }
IsPrefix(s, t) == Len(s) <= Len(t) /\ \A n \in DOMAIN s : t[n] = s[n]

Tracing == pc \in {"nearest", "shade", "lights", "shadow"}

\* The steps that are one call of hit, and the ray the call is made on.
NearestHitStep == pc = "nearest" /\ pc' = "nearest"
ShadowHitStep == pc = "shadow" /\ pc' = "shadow"

\* ---- C7 ----------------------------------------------------------------
C7_Handles ==
    /\ Len(objects) = Len(sphere_storage) + Len(triangle_storage)
    /\ Len(objects) = Len(heap)
    \* address k is the k-th allocation, made by the k-th push
    /\ \A n \in DOMAIN objects : objects[n] = n
    /\ \A n \in DOMAIN objects :
          \/ objects[n] \in Range(sphere_storage) /\ heap[objects[n]].kind = "sphere"
          \/ objects[n] \in Range(triangle_storage) /\ heap[objects[n]].kind = "triangle"
    /\ Range(sphere_storage) \cap Range(triangle_storage) = {}

C7_Stable ==
    /\ IsPrefix(objects, objects')
    /\ IsPrefix(lights, lights')
    /\ Len(objects') <= Len(objects) + 1
    /\ Len(lights') <= Len(lights) + 1
    /\ \A n \in DOMAIN objects : heap'[objects[n]] = heap[objects[n]]

\* C7: get_objects() holds one handle per pushed primitive, in push order
\* across both variants, each owned by the typed storage of its variant, and
\* a push changes neither the handles already listed nor what they refer to;
\* get_lights() grows by appending.
C7_SceneHandles == [](C7_Handles) /\ [][C7_Stable]_vars

\* A sphere, a triangle and a sphere pushed in that order, and two lights.
C7_Witness ==
    /\ Len(objects) = 3
    /\ Len(lights) = 2
    /\ heap[objects[1]].kind = "sphere"
    /\ heap[objects[2]].kind = "triangle"
    /\ heap[objects[3]].kind = "sphere"
    /\ sphere_storage = <<1, 3>>
    /\ triangle_storage = <<2>>

\* ---- C3 ----------------------------------------------------------------
\* What one call of hit may do to the ray it is given.
HitEffect(before, after) ==
    /\ after.origin = before.origin
    /\ after.direction = before.direction
    /\ after.t = before.t \/ (after.t > eps /\ after.t < before.t)

\* The later root t1 of Sphere::hit (read where g >= 0).
Sphere_g(s, r) ==
    LET h == sub3(s.position, r.origin)
        m == dot(h, r.direction)
    IN  FMul(m, m) - dot(h, h) + FMul(s.radius, s.radius)
Sphere_t1(s, r) ==
    dot(sub3(s.position, r.origin), r.direction) + FSqrt(Sphere_g(s, r))

\* Both roots of the sphere are at most eps (t0 <= t1).
RootsInShell(s, r) == Sphere_g(s, r) >= 0 /\ Sphere_t1(s, r) <= eps

C3_Step ==
    /\ NearestHitStep => HitEffect(ray, ray')
    /\ ShadowHitStep => HitEffect(ray_to_light, ray_to_light')
    /\ \A r \in {ray, ray_to_light} :
          /\ \/ NearestHitStep /\ r = ray
             \/ ShadowHitStep /\ r = ray_to_light
          /\ heap[objects[it]].kind = "sphere"
          /\ RootsInShell(heap[objects[it]], r)
          => ~call'.ret

\* C3: a call of hit leaves the ray's origin and direction alone and either
\* leaves ray.t alone or lowers it to a value above eps; ray.t is never at
\* most eps; a sphere whose roots are both at most eps is rejected.
C3_TOnlyDecreases == [](ray.t > eps /\ ray_to_light.t > eps) /\ [][C3_Step]_vars

\* A shadow ray leaving a sphere's surface is tested against that sphere,
\* whose roots are then both at most eps, and is rejected.
C3_Witness ==
    /\ pc = "shadow"
    /\ call.where = "shadow"
    /\ call.obj = hit_object
    /\ heap[call.obj].kind = "sphere"
    /\ RootsInShell(heap[call.obj], call.before)
    /\ Sphere_t1(heap[call.obj], call.before) >= -eps
    /\ ~call.ret

\* ---- C8 ----------------------------------------------------------------
\* The plane distance of a triangle lies in the window (eps, ray.t).
Tri_in_window(tr, r) ==
    /\ isnormal(Tri_denominator(tr, r))
    /\ ~signbit(Tri_time(tr, r))
    /\ Tri_time(tr, r) > eps
    /\ Tri_time(tr, r) < r.t

\* What a call of hit that returned false left in ray.t.
C8_Frame(o, before, after) ==
    IF o.kind = "sphere" THEN after.t = before.t
    ELSE IF ~Tri_in_window(o, before) THEN after.t = before.t
    ELSE after.t = Tri_time(o, before) /\ after.t # before.t

C8_Step ==
    /\ NearestHitStep /\ ~call'.ret => C8_Frame(heap[objects[it]], ray, ray')
    /\ ShadowHitStep /\ ~call'.ret => C8_Frame(heap[objects[it]], ray_to_light, ray_to_light')

\* C8: a call of hit that returns false leaves ray.t as it was, except that
\* Triangle::hit, once the plane distance is inside (eps, ray.t), returns
\* false on the determinant or containment test with ray.t left at the plane
\* distance.
C8_FalseLeavesT == [][C8_Step]_vars

\* A triangle rejected a ray at the containment test and left ray.t lowered.
C8_Witness ==
    /\ call.where = "nearest"
    /\ heap[call.obj].kind = "triangle"
    /\ ~call.ret
    /\ call.after.t < call.before.t
    /\ ray = call.after

\* ---- C6 ----------------------------------------------------------------
\* beta >= 0, gamma >= 0, beta + gamma <= 1.
Inside(b) == b.beta >= 0 /\ b.gamma >= 0 /\ b.beta + b.gamma <= One

C6_Case(o, r) == o.kind = "triangle" /\ isnormal(Tri_det(o)) /\ Tri_in_window(o, r)

C6_Step ==
    /\ NearestHitStep /\ C6_Case(heap[objects[it]], ray)
          => (call'.ret <=> Inside(Tri_bary(heap[objects[it]], ray)))
    /\ ShadowHitStep /\ C6_Case(heap[objects[it]], ray_to_light)
          => (call'.ret <=> Inside(Tri_bary(heap[objects[it]], ray_to_light)))

\* C6: for a non-degenerate triangle whose plane the ray meets at a distance
\* in (eps, ray.t), Triangle::hit returns true exactly when beta >= 0,
\* gamma >= 0 and beta + gamma <= 1, the boundaries included.
C6_Containment == [][C6_Step]_vars

\* A hit on the edge beta + gamma = 1 was accepted.
C6_Witness ==
    /\ call.where = "nearest"
    /\ C6_Case(heap[call.obj], call.before)
    /\ call.ret
    /\ Tri_bary(heap[call.obj], call.before).beta > 0
    /\ Tri_bary(heap[call.obj], call.before).gamma > 0
    /\ Tri_bary(heap[call.obj], call.before).beta
         + Tri_bary(heap[call.obj], call.before).gamma = One

\* ---- C1 ----------------------------------------------------------------
\* The calls of the pass in progress that returned true.
Accepted == { n \in DOMAIN pass : pass[n].ret }

\* C1: when the nearest-hit pass is over and some object returned true,
\* ray.t is the smallest distance a call of the pass accepted and hit_object
\* is the object that accepted it.
C1_NearestAccepted ==
    pc = "shade" =>
        /\ Accepted # {}
        /\ \A n \in Accepted : ray.t <= pass[n].after.t
        /\ \E n \in Accepted : pass[n].after.t = ray.t /\ pass[n].obj = hit_object

\* ---- C9 ----------------------------------------------------------------
RECURSIVE ShadowScan(_, _)
\* in_shadow after the loop of lines 416-421 over the handles `objs`.
ShadowScan(objs, shadow_ray) ==
    IF objs = <<>> THEN FALSE
    ELSE LET r == Object_hit(heap[Head(objs)], shadow_ray)
         IN  IF r.ret THEN TRUE
             ELSE ShadowScan(Tail(objs), [shadow_ray EXCEPT !.t = r.t])

\* The orders in which the scene's handles can be listed.
Orders == { [n \in DOMAIN objects |-> f[objects[n]]] : f \in Permutations(Range(objects)) }

ShadowOver == pc = "shadow" /\ (in_shadow \/ it > Len(objects))

\* C9: the result of a shadow test is the same for every order of the
\* scene's objects.
C9_ShadowOrderFree ==
    ShadowOver =>
        \A o \in Orders : ShadowScan(o, Ray(hit_position, light_direction)) = in_shadow

\* ---- C10 ---------------------------------------------------------------
\* C10: the normal of a hit accepted by a triangle is not the zero vector and
\* is parallel to the normal of the triangle's plane, so the nudged hit
\* position differs from the hit position and the reflected direction from
\* the incoming one.
C10_TriangleNormal ==
    pc = "lights" /\ heap[hit_object].kind = "triangle" =>
        /\ hit_normal # Zero3
        /\ cross(hit_normal, Tri_n(heap[hit_object])) = Zero3
        /\ hit_position # Ray_hit_position(ray)
        /\ Reflected(ray.direction, hit_normal) # ray.direction

\* ---- C2 ----------------------------------------------------------------
\* The number of steps one iteration of the trace loop can take, plus one.
Span == Len(objects) + 3 + (Len(lights) * (Len(objects) + 2))

\* How far ray_trace has got: iterations done, then the place in this one.
Rank(p, d, i, l, s) ==
    IF p = "done" THEN MaxDepth * Span
    ELSE (d * Span) +
         (CASE p = "nearest" -> i - 1
            [] p = "shade"   -> Len(objects) + 1
            [] p = "lights"  -> Len(objects) + 2 + ((l - 1) * (Len(objects) + 2))
            [] p = "shadow"  -> Len(objects) + 2 + ((l - 1) * (Len(objects) + 2))
                                + (IF s THEN Len(objects) + 1 ELSE i)
            [] OTHER -> 0)

Shaded == { n \in DOMAIN terms : terms[n].kind = "ambient" }

C2_Bounded ==
    /\ Tracing => depth < MaxDepth
    /\ Tracing => Rank(pc, depth, it, lt, in_shadow) < MaxDepth * Span
    /\ Cardinality(Shaded) <= MaxDepth
    /\ Len(pass) <= Len(objects)
    /\ pc \in {"lights", "shadow"} => lt <= Len(lights) + 1
    /\ pc = "done" =>
          \/ exit = "no_hit" /\ hit_object = nullptr /\ it = Len(objects) + 1
          \/ exit = "intensity" /\ intensity * 100 < CScale
          \/ exit = "depth" /\ depth = MaxDepth /\ intensity * 100 >= CScale

C2_Progress ==
    Tracing => /\ pc' # "build"
               /\ Rank(pc', depth', it', lt', in_shadow') > Rank(pc, depth, it, lt, in_shadow)

\* C2: ray_trace runs at most MaxDepth iterations, each of at most one hit
\* call per object in the nearest-hit pass and in each light's shadow pass;
\* every step brings it nearer to its return, and it returns because nothing
\* was hit, the intensity fell below 0.01 or the depth bound was reached.
C2_Terminates == [](C2_Bounded) /\ [][C2_Progress]_vars

\* Two facing mirror spheres: the trace ends at the depth bound.
C2_Witness ==
    /\ pc = "done"
    /\ exit = "depth"
    /\ Cardinality(Shaded) = MaxDepth
    /\ \A a \in DOMAIN heap : heap[a].kind = "sphere" /\ heap[a].mat.reflect = 9900
    /\ Len(objects) = 2

\* ---- C4 ----------------------------------------------------------------
\* The step of lines 426-431.
ReflectStep == pc = "lights" /\ pc' \in {"nearest", "done"}

C4_Weights ==
    /\ \A n \in DOMAIN terms : terms[n].weight * 100 >= CScale
    /\ Tracing => intensity * 100 >= CScale
    /\ Tracing /\ depth = 0 => intensity = CScale
    /\ exit = "intensity" => pc = "done" /\ intensity * 100 < CScale

C4_Step ==
    /\ ReflectStep =>
          /\ intensity' = CMul(intensity, heap[hit_object].mat.reflect)
          /\ color' = color
          /\ IF intensity' * 100 < CScale
                THEN pc' = "done" /\ exit' = "intensity" /\ ray' = ray /\ depth' = depth
                ELSE exit' # "intensity" /\ ray'.origin = hit_position /\ depth' = depth + 1
          /\ heap[hit_object].mat.reflect = 0 /\ depth = 0
                => pc' = "done" /\ Cardinality(Shaded) = 1 /\ ray' = ray
    /\ Tracing /\ ~ReflectStep => intensity' = intensity

\* C4: intensity starts at 1.0 and is multiplied by the hit material's
\* reflect after each shaded hit; the trace returns at the end of the first
\* iteration that leaves it below 0.01, casting no reflected ray; no term is
\* added to color with a weight below 0.01, and reflect = 0 ends the trace
\* after one shaded hit.
C4_Intensity == [](C4_Weights) /\ [][C4_Step]_vars

\* The third hit on a matte surface brings the intensity to 0.008.
C4_Witness ==
    /\ pc = "done"
    /\ exit = "intensity"
    /\ depth = 2
    /\ Cardinality(Shaded) = 3
    /\ intensity > 0

\* ---- C5 ----------------------------------------------------------------
Occluded == \E n \in DOMAIN pass : pass[n].ret

C5_Step ==
    /\ pc = "lights" /\ lt <= Len(lights) /\ pc' # pc =>
          \* only a light in front of the surface gets a shadow ray, a fresh one
          /\ pc' = "shadow"
          /\ dot(hit_normal, normalize(sub3(lights[lt].position, hit_position))) > 0
          /\ ray_to_light' = [origin |-> hit_position,
                              direction |-> normalize(sub3(lights[lt].position, hit_position)),
                              t |-> FLT_MAX]
          /\ color' = color /\ terms' = terms
    /\ pc = "lights" /\ lt <= Len(lights) /\ pc' = pc =>
          \* a light behind the surface adds nothing and casts no ray
          \/ UNCHANGED vars
          \/ /\ dot(hit_normal, normalize(sub3(lights[lt].position, hit_position))) <= 0
             /\ lt' = lt + 1
             /\ UNCHANGED <<color, terms, ray_to_light, call, pass>>
    /\ pc = "shadow" /\ pc' = "lights" =>
          IF Occluded
             THEN color' = color /\ terms' = terms
             ELSE /\ Len(pass) = Len(objects)
                  /\ terms' = Append(terms, [kind |-> "diffuse", weight |-> intensity,
                                             depth |-> depth, light |-> lt])
                  /\ color' = add3(color, Diffuse(intensity, heap[hit_object].mat,
                                                  dot(hit_normal, light_direction),
                                                  lights[lt]))

\* C5: a light with dot(normal, light_dir) > 0 gets a fresh shadow ray from
\* the nudged hit position, and its diffuse term is added exactly when no
\* hit call on that ray returned true, however far the accepted hit lies; a
\* light with dot(normal, light_dir) <= 0 adds nothing and casts no ray.
C5_Shadow == [][C5_Step]_vars

\* An object farther away than the light put the point in shadow.
C5_Witness ==
    /\ pc = "shadow"
    /\ in_shadow
    /\ call.where = "shadow"
    /\ call.ret
    /\ call.after.t > LightDistance(call.before, lights[lt])

====
